---- MODULE Spec2Model ----
(***************************************************************************)
(* A model of the pipelines of the repository:                             *)
(*   - main.py: the assembly pass that slices a PDF by the mapper's        *)
(*     structure map (front matter, per-unit gap filling, appendix);       *)
(*   - evaluate.py: the two-level consumption matching of a ground-truth   *)
(*     map against an agent map, and the report printed from its stats.    *)
(*   - parser.py: the pass over markdown tokens that rebuilds units,       *)
(*     lessons and parts from h1, h2 and h3 headings.                      *)
(* Text is not modelled: the content of a lesson or part is the sequence   *)
(* of 0-based page indices that extract_text_from_pages loads for it.      *)
(* Titles of mapped units and lessons are copied through by main.py and    *)
(* never read, so the assembly part carries page fields only.              *)
(***************************************************************************)
EXTENDS Integers, Sequences, FiniteSets, TLC

\* ------------------------------------------------------------------ bounds
\* Largest page number a mapper record may name, and the largest page count
\* of a PDF. Page fields range over 0..MaxPage: 0 is a value below the first
\* physical page, and a value above total_pages occurs when the PDF is short.
MaxPage == 3
\* Largest number of unit and lesson records, together, in a mapper output.
MaxRecords == 3

\* Python's None for the mapper's result, and a validated list of units.
NoneMap == [is_none |-> TRUE, units |-> <<>>]
ListMap(units) == [is_none |-> FALSE, units |-> units]

\* The value of unit_obj before the first unit is started.
NoUnit == [start_page |-> 0, end_page |-> 0, lessons |-> <<>>, parts |-> <<>>]

VARIABLES
    \* ---- main.py
    pc,                  \* position in main()
    structure_map,       \* what generate_structure_map_from_pdf returned
    map_file,            \* TRUE once agent_map_path was written
    pdf_state,           \* "unopened" | "open" | "closed"
    total_pages,         \* len(pdf_doc)
    final_units,         \* final_json["units"]
    unit_i,              \* index of unit_data in structure_map
    lesson_i,            \* index of lesson_data in unit_data["lessons"]
    unit_obj,            \* the unit under construction
    last_processed_page, \* the cursor of the lesson walk
    final_file,          \* TRUE once final_json_path was written
    \* ---- evaluate.py
    epc,                       \* position in evaluate_with_llm()
    ground_truth_units,        \* first argument of evaluate_with_llm
    agent_units,               \* second argument of evaluate_with_llm
    stats,                     \* the stats dict, errors included
    available_agent_units,     \* the unit pool: title -> agent unit
    available_agent_lessons,   \* the lesson pool of the matched unit
    gt_i,                      \* index of gt_unit in ground_truth_units
    gt_lesson_i,               \* index of gt_lesson in gt_unit["lessons"]
    match_result,              \* the latest (lesson_)match_result
    calls,                     \* the matcher invocations made so far
    report,                    \* what print_report printed
    \* ---- evaluate.py, main()
    cpc,                       \* position in main() of evaluate.py
    gt_data,                   \* load_json_file(args.ground_truth_path)
    agent_data,                \* load_json_file(args.agent_map_path)
    console,                   \* the messages main() and load_json_file print
    loads,                     \* the paths load_json_file was called on
    \* ---- main.py, extract_text_from_pages called on its own
    extraction,                \* the arguments and the pages it loaded
    \* ---- parser.py
    ppc,                       \* position in parse_golden_markdown_to_json()
    tokens,                    \* md.parse(golden_md_text)
    tok_i,                     \* the loop index i, counted from 1
    result_json,               \* result_json["units"]
    current_unit,              \* the unit being built, or None
    current_lesson,            \* the lesson being built, or None
    current_part               \* the part being built, or None

mainVars == <<pc, structure_map, map_file, pdf_state, total_pages,
              final_units, unit_i, lesson_i, unit_obj, last_processed_page,
              final_file>>
evalVars == <<epc, ground_truth_units, agent_units, stats,
              available_agent_units, available_agent_lessons, gt_i,
              gt_lesson_i, match_result, calls, report>>
cliVars == <<cpc, gt_data, agent_data, console, loads>>
extractVars == <<extraction>>
parseVars == <<ppc, tokens, tok_i, result_json, current_unit, current_lesson,
               current_part>>
vars == <<mainVars, evalVars, cliVars, extractVars, parseVars>>

\* ----------------------------------------------------------- helper values
Max(a, b) == IF a >= b THEN a ELSE b
Min(a, b) == IF a <= b THEN a ELSE b

\* range(a, b + 1) of Python as a sequence: empty when a > b.
PyRange(a, b) == [k \in 1..Max(0, b - a + 1) |-> a + k - 1]

PageVals == 0..MaxPage

\* A mapper lesson record (agents.py Lesson), page fields only.
LessonRecs ==
    [lesson_start_page : PageVals, lesson_end_page : PageVals]

\* All sequences over S of length exactly n.
SeqN(S, n) == [1..n -> S]

\* A mapper unit record (agents.py Unit) with exactly n lessons.
UnitRecs(n) ==
    [unit_start_page : PageVals, unit_end_page : PageVals,
     lessons : SeqN(LessonRecs, n)]

\* The unit lists that hold exactly w records (units and lessons together).
RECURSIVE MapsOfWeight(_)
MapsOfWeight(w) ==
    IF w = 0 THEN {<<>>}
    ELSE UNION { { <<u>> \o rest : u \in UnitRecs(k - 1),
                                   rest \in MapsOfWeight(w - k) }
                 : k \in 1..w }

\* What generate_structure_map_from_pdf may return: None on any failure,
\* otherwise the validated list of units (possibly empty), here of at most
\* maxw records.
MapperOutputs(maxw) ==
    {NoneMap} \cup
    { ListMap(units) : units \in UNION { MapsOfWeight(w) : w \in 0..maxw } }

\* ------------------------------------------------- extract_text_from_pages
\* extract_text_from_pages without lines 18-19: the indices are not clamped.
extract_text_from_pages_unclamped(n, start_page, end_page) ==
    PyRange(start_page - 1, end_page - 1)

\* The 0-based page indices loaded for the 1-based range (start_page,
\* end_page) of a document of n pages, in load order.
extract_text_from_pages(n, start_page, end_page) ==
    LET start_idx == Max(0, start_page - 1)
        end_idx   == Min(n - 1, end_page - 1)
    IN  PyRange(start_idx, end_idx)

\* No call of extract_text_from_pages on its own was made.
NoExtraction ==
    [called |-> FALSE, n |-> 0, start_page |-> 0, end_page |-> 0,
     loaded |-> <<>>]

\* The calls of extract_text_from_pages that are examined on their own: a
\* document of 0..MaxPage pages and page arguments from below the first page
\* to above the last.
PageArgs == (0 - 1)..(MaxPage + 1)
Extractions ==
    [called : {FALSE}, n : 0..MaxPage, start_page : PageArgs,
     end_page : PageArgs, loaded : {<<>>}]

\* main.py 14-23: one call of extract_text_from_pages; `loaded` receives the
\* indices handed to pdf_doc.load_page, in order.
ExtractCall ==
    /\ ~extraction.called
    /\ extraction' =
          [extraction EXCEPT
             !.called = TRUE,
             !.loaded = extract_text_from_pages(extraction.n,
                                                extraction.start_page,
                                                extraction.end_page)]
    /\ UNCHANGED <<mainVars, evalVars, cliVars, parseVars>>

\* A part (Segment) of the output: its title's kind, the nominal page range
\* it was extracted for, and its content.
Part(title, s, e) ==
    [title |-> title, start_page |-> s, end_page |-> e,
     content |-> extract_text_from_pages(total_pages, s, e)]

\* ---------------------------------------------------------------- main()
\* main.py 32-34: the input PDF does not exist.
PdfNotFound ==
    /\ pc = "start"
    /\ pc' = "done"
    /\ UNCHANGED <<evalVars, cliVars, extractVars, parseVars>>
    /\ UNCHANGED <<structure_map, map_file, pdf_state, total_pages,
                   final_units, unit_i, lesson_i, unit_obj,
                   last_processed_page, final_file>>

\* Falsy that lets the empty list through (`is None` for `not`).
Falsy_noneonly(m) == m.is_none

\* `not structure_map` of Python: None and the empty list are falsy.
Falsy(m) == m.is_none \/ m.units = <<>>

\* main.py 37-44: the mapper is called; a falsy result halts the run, any
\* other result is written to the map file.
GenerateMap ==
    /\ pc = "start"
    /\ \E m \in MapperOutputs(MaxRecords) :
          /\ structure_map' = m
          /\ IF Falsy(m)
                THEN pc' = "done" /\ map_file' = map_file
                ELSE pc' = "open" /\ map_file' = TRUE
    /\ UNCHANGED <<evalVars, cliVars, extractVars, parseVars>>
    /\ UNCHANGED <<pdf_state, total_pages, final_units, unit_i, lesson_i,
                   unit_obj, last_processed_page, final_file>>

\* main.py 48-49: the PDF is opened; it has between 1 and MaxPage pages.
OpenPdf ==
    /\ pc = "open"
    /\ \E n \in 1..MaxPage : total_pages' = n
    /\ pdf_state' = "open"
    /\ final_units' = <<>>
    /\ pc' = "intro"
    /\ UNCHANGED <<evalVars, cliVars, extractVars, parseVars>>
    /\ UNCHANGED <<structure_map, map_file, unit_i, lesson_i, unit_obj,
                   last_processed_page, final_file>>

\* HasFrontMatter with the comparison off by one (>= 1 for > 1).
HasFrontMatter_offbyone(m) ==
    ~Falsy(m) /\ m.units[1].unit_start_page >= 1

\* main.py 51: the condition under which an introduction is extracted.
HasFrontMatter(m) ==
    ~Falsy(m) /\ m.units[1].unit_start_page > 1

\* main.py 51-59: the front matter.
FrontMatter ==
    /\ pc = "intro"
    /\ IF HasFrontMatter(structure_map)
          THEN LET first_unit_start_page == structure_map.units[1].unit_start_page
                   intro_unit ==
                     [start_page |-> 1,
                      end_page   |-> first_unit_start_page - 1,
                      lessons    |-> <<>>,
                      parts      |-> << Part("Introduction Content", 1,
                                             first_unit_start_page - 1) >>]
               IN  final_units' = Append(final_units, intro_unit)
          ELSE final_units' = final_units
    /\ unit_i' = 1
    /\ pc' = "unit"
    /\ UNCHANGED <<evalVars, cliVars, extractVars, parseVars>>
    /\ UNCHANGED <<structure_map, map_file, pdf_state, total_pages, lesson_i,
                   unit_obj, last_processed_page, final_file>>

\* main.py 61-66: the next unit of the map is started.
UnitBegin ==
    /\ pc = "unit"
    /\ unit_i <= Len(structure_map.units)
    /\ LET unit_data == structure_map.units[unit_i]
       IN  /\ unit_obj' = [start_page |-> unit_data.unit_start_page,
                           end_page   |-> unit_data.unit_end_page,
                           lessons    |-> <<>>,
                           parts      |-> <<>>]
           /\ last_processed_page' = unit_data.unit_start_page - 1
    /\ lesson_i' = 1
    /\ pc' = "lesson"
    /\ UNCHANGED <<evalVars, cliVars, extractVars, parseVars>>
    /\ UNCHANGED <<structure_map, map_file, pdf_state, total_pages,
                   final_units, unit_i, final_file>>

\* HasGap that lets a gap of one page pass (cursor + 2 for cursor + 1).
HasGap_skipone(lesson_start, cursor) == lesson_start > cursor + 2

\* HasGap with the comparison off by one (cursor for cursor + 1).
HasGap_offbyone(lesson_start, cursor) == lesson_start > cursor

\* main.py 70: the gap check before a lesson.
HasGap(lesson_start, cursor) == lesson_start > cursor + 1

\* main.py 67-79: one lesson of the current unit.
LessonStep ==
    /\ pc = "lesson"
    /\ lesson_i <= Len(structure_map.units[unit_i].lessons)
    /\ LET lesson_data  == structure_map.units[unit_i].lessons[lesson_i]
           lesson_start == lesson_data.lesson_start_page
           lesson_end   == lesson_data.lesson_end_page
           parts1 ==
             IF HasGap(lesson_start, last_processed_page)
                THEN Append(unit_obj.parts,
                            Part("Unit Content", last_processed_page + 1,
                                 lesson_start - 1))
                ELSE unit_obj.parts
           lesson_obj ==
             [start_page |-> lesson_start, end_page |-> lesson_end,
              content |-> extract_text_from_pages(total_pages, lesson_start,
                                                  lesson_end)]
       IN  /\ unit_obj' = [unit_obj EXCEPT
                             !.parts = parts1,
                             !.lessons = Append(@, lesson_obj)]
           /\ last_processed_page' = lesson_end
    /\ lesson_i' = lesson_i + 1
    /\ UNCHANGED <<evalVars, cliVars, extractVars, parseVars>>
    /\ UNCHANGED <<pc, structure_map, map_file, pdf_state, total_pages,
                   final_units, unit_i, final_file>>

\* HasConclusion with the comparison off by one (>= for >).
HasConclusion_offbyone(unit_end, cursor) == unit_end >= cursor

\* main.py 80: the condition under which a unit conclusion is extracted.
HasConclusion(unit_end, cursor) == unit_end > cursor

\* main.py 80-84: the lessons of the unit are exhausted.
UnitEnd ==
    /\ pc = "lesson"
    /\ lesson_i > Len(structure_map.units[unit_i].lessons)
    /\ LET parts1 ==
             IF HasConclusion(unit_obj.end_page, last_processed_page)
                THEN Append(unit_obj.parts,
                            Part("Unit Conclusion", last_processed_page + 1,
                                 unit_obj.end_page))
                ELSE unit_obj.parts
       IN  final_units' = Append(final_units,
                                 [unit_obj EXCEPT !.parts = parts1])
    /\ unit_i' = unit_i + 1
    /\ pc' = "unit"
    /\ UNCHANGED <<evalVars, cliVars, extractVars, parseVars>>
    /\ UNCHANGED <<structure_map, map_file, pdf_state, total_pages, lesson_i,
                   unit_obj, last_processed_page, final_file>>

\* main.py 89: `last_mapped_page and total_pages > last_mapped_page`; the
\* integer 0 is falsy in Python.
HasAfterword(last_mapped_page, n) ==
    last_mapped_page # 0 /\ n > last_mapped_page

\* main.py 86-97: the appendix, once every unit is assembled.
Appendix ==
    /\ pc = "unit"
    /\ unit_i > Len(structure_map.units)
    /\ LET last_mapped_page ==
             structure_map.units[Len(structure_map.units)].unit_end_page
           start_page_after == last_mapped_page + 1
           afterword_unit ==
             [start_page |-> start_page_after, end_page |-> total_pages,
              lessons |-> <<>>,
              parts |-> << Part("Afterword Content", start_page_after,
                                total_pages) >>]
       IN  IF HasAfterword(last_mapped_page, total_pages)
              THEN final_units' = Append(final_units, afterword_unit)
              ELSE final_units' = final_units
    /\ pc' = "close"
    /\ UNCHANGED <<evalVars, cliVars, extractVars, parseVars>>
    /\ UNCHANGED <<structure_map, map_file, pdf_state, total_pages, unit_i,
                   lesson_i, unit_obj, last_processed_page, final_file>>

\* main.py 99: the PDF is closed.
ClosePdf ==
    /\ pc = "close"
    /\ pdf_state' = "closed"
    /\ pc' = "write"
    /\ UNCHANGED <<evalVars, cliVars, extractVars, parseVars>>
    /\ UNCHANGED <<structure_map, map_file, total_pages, final_units, unit_i,
                   lesson_i, unit_obj, last_processed_page, final_file>>

\* main.py 101-104: the final JSON is written.
WriteFinal ==
    /\ pc = "write"
    /\ final_file' = TRUE
    /\ pc' = "done"
    /\ UNCHANGED <<evalVars, cliVars, extractVars, parseVars>>
    /\ UNCHANGED <<structure_map, map_file, pdf_state, total_pages,
                   final_units, unit_i, lesson_i, unit_obj,
                   last_processed_page>>

\* main.py 48: fitz.open raises on a file it cannot read as a PDF; main()
\* catches nothing, so the run ends there.
OpenPdfFails ==
    /\ pc = "open"
    /\ pc' = "crashed"
    /\ UNCHANGED <<evalVars, cliVars, extractVars, parseVars>>
    /\ UNCHANGED <<structure_map, map_file, pdf_state, total_pages,
                   final_units, unit_i, lesson_i, unit_obj,
                   last_processed_page, final_file>>

\* The page indices the next step of the assembly hands to load_page.
PendingLoads ==
    IF pc = "intro"
       THEN IF HasFrontMatter(structure_map)
               THEN extract_text_from_pages(total_pages, 1,
                       structure_map.units[1].unit_start_page - 1)
               ELSE <<>>
    ELSE IF pc = "lesson" /\ lesson_i <= Len(structure_map.units[unit_i].lessons)
       THEN LET lesson_data == structure_map.units[unit_i].lessons[lesson_i]
            IN  (IF HasGap(lesson_data.lesson_start_page, last_processed_page)
                    THEN extract_text_from_pages(total_pages,
                            last_processed_page + 1,
                            lesson_data.lesson_start_page - 1)
                    ELSE <<>>)
                \o extract_text_from_pages(total_pages,
                       lesson_data.lesson_start_page,
                       lesson_data.lesson_end_page)
    ELSE IF pc = "lesson"
       THEN IF HasConclusion(unit_obj.end_page, last_processed_page)
               THEN extract_text_from_pages(total_pages,
                       last_processed_page + 1, unit_obj.end_page)
               ELSE <<>>
    ELSE IF pc = "unit" /\ unit_i > Len(structure_map.units)
       THEN LET last_mapped_page ==
                  structure_map.units[Len(structure_map.units)].unit_end_page
            IN  IF HasAfterword(last_mapped_page, total_pages)
                   THEN extract_text_from_pages(total_pages,
                           last_mapped_page + 1, total_pages)
                   ELSE <<>>
    ELSE <<>>

\* main.py 21-22: load_page or get_text raises on a page of the open PDF
\* (a damaged page, a read error). extract_text_from_pages and main() catch
\* nothing (main.py 48-99 holds no try, with or finally), so the exception
\* leaves main() at once: pdf_doc.close() and the final dump are not
\* reached.
ExtractionFails ==
    /\ pc \in {"intro", "unit", "lesson"}
    /\ PendingLoads # <<>>
    /\ pc' = "crashed"
    /\ UNCHANGED <<evalVars, cliVars, extractVars, parseVars>>
    /\ UNCHANGED <<structure_map, map_file, pdf_state, total_pages,
                   final_units, unit_i, lesson_i, unit_obj,
                   last_processed_page, final_file>>

NextMain ==
    \/ PdfNotFound
    \/ GenerateMap
    \/ OpenPdf
    \/ OpenPdfFails
    \/ ExtractionFails
    \/ FrontMatter
    \/ UnitBegin
    \/ LessonStep
    \/ UnitEnd
    \/ Appendix
    \/ ClosePdf
    \/ WriteFinal

\* ============================================================== parser.py
\* Largest number of blocks (headings and paragraphs) of a parsed document.
MaxBlocks == 4

\* The texts of headings and of paragraphs.
HeadingTexts == {"a", "b"}
ParagraphTexts == {"x"}

\* A token of markdown-it, by the attributes the parser reads. The markup of
\* the tokens that carry content here (inline) is empty.
Token(type, tag, content) == [type |-> type, tag |-> tag, content |-> content]

\* The tokens md.parse gives for one block: a heading of level h1..h3 or a
\* paragraph is an opening token, an inline token with the text, and a
\* closing token.
HeadingTokens(tag, text) ==
    << Token("heading_open", tag, ""), Token("inline", "", text),
       Token("heading_close", tag, "") >>
ParagraphTokens(text) ==
    << Token("paragraph_open", "p", ""), Token("inline", "", text),
       Token("paragraph_close", "p", "") >>
Blocks ==
    { HeadingTokens(tag, text) : tag \in {"h1", "h2", "h3"},
                                 text \in HeadingTexts }
    \cup { ParagraphTokens(text) : text \in ParagraphTexts }

RECURSIVE Flatten(_, _)
Flatten(blocks, n) ==
    IF n = 0 THEN <<>> ELSE Flatten(blocks, n - 1) \o blocks[n]

\* The token lists of the documents of at most maxn blocks.
TokenLists(maxn) ==
    UNION { { Flatten(bs, n) : bs \in SeqN(Blocks, n) } : n \in 0..maxn }

\* Python's None for current_unit, current_lesson and current_part, and the
\* dicts the parser creates for them; a dict with keys is truthy.
NoneUnit == [is_none |-> TRUE, title |-> "", lessons |-> <<>>, parts |-> <<>>]
NoneLesson == [is_none |-> TRUE, title |-> "", parts |-> <<>>]
NonePart == [is_none |-> TRUE, title |-> "", content |-> <<>>]
NewUnit(heading_text) ==
    [is_none |-> FALSE, title |-> heading_text, lessons |-> <<>>,
     parts |-> <<>>]
NewLesson(heading_text) ==
    [is_none |-> FALSE, title |-> heading_text, parts |-> <<>>]
NewPart(heading_text) ==
    [is_none |-> FALSE, title |-> heading_text, content |-> <<>>]

\* parser.py 20-28: save_state. The part goes to the lesson if both exist,
\* the lesson to the unit if both exist, and the unit to the result unless
\* the result already holds an equal dict; the value is the new result.
save_state(res, u, l, p) ==
    LET l1 == IF ~p.is_none /\ ~l.is_none
                 THEN [l EXCEPT !.parts = Append(@, p)] ELSE l
        u1 == IF ~l.is_none /\ ~u.is_none
                 THEN [u EXCEPT !.lessons = Append(@, l1)] ELSE u
    IN  IF ~u.is_none /\ ~(\E j \in DOMAIN res : res[j] = u1)
           THEN Append(res, u1)
           ELSE res

\* parser.py 10-17: the text is tokenised and the state is initialised.
ParseStart ==
    /\ ppc = "start"
    /\ ppc' = "loop"
    /\ tok_i' = 1
    /\ result_json' = <<>>
    /\ current_unit' = NoneUnit
    /\ current_lesson' = NoneLesson
    /\ current_part' = NonePart
    /\ UNCHANGED tokens
    /\ UNCHANGED <<mainVars, evalVars, cliVars, extractVars>>

\* parser.py 34-42 and 58-59: an h1 heading opens a unit.
ParseH1 ==
    /\ ppc = "loop"
    /\ tok_i <= Len(tokens)
    /\ tokens[tok_i].type = "heading_open"
    /\ tokens[tok_i].tag = "h1"
    /\ LET heading_text == tokens[tok_i + 1].content
       IN  /\ result_json' = save_state(result_json, current_unit,
                                        current_lesson, current_part)
           /\ current_unit' = NewUnit(heading_text)
           /\ current_lesson' = NoneLesson
           /\ current_part' = NonePart
    /\ tok_i' = tok_i + 2
    /\ UNCHANGED <<ppc, tokens>>
    /\ UNCHANGED <<mainVars, evalVars, cliVars, extractVars>>

\* parser.py 44-48 and 58-59: an h2 heading opens a lesson. The part in
\* progress is appended to current_lesson["parts"], which raises TypeError
\* when current_lesson is None.
ParseH2 ==
    /\ ppc = "loop"
    /\ tok_i <= Len(tokens)
    /\ tokens[tok_i].type = "heading_open"
    /\ tokens[tok_i].tag = "h2"
    /\ LET heading_text == tokens[tok_i + 1].content
       IN  IF ~current_part.is_none /\ current_lesson.is_none
              THEN /\ ppc' = "crashed"
                   /\ UNCHANGED <<tok_i, current_lesson, current_part>>
              ELSE /\ current_lesson' = NewLesson(heading_text)
                   /\ current_part' = NonePart
                   /\ tok_i' = tok_i + 2
                   /\ UNCHANGED ppc
    /\ UNCHANGED <<tokens, result_json, current_unit>>
    /\ UNCHANGED <<mainVars, evalVars, cliVars, extractVars>>

\* parser.py 50-59: an h3 heading opens a part; the part in progress goes to
\* the lesson, or to the unit when no lesson is open.
ParseH3 ==
    /\ ppc = "loop"
    /\ tok_i <= Len(tokens)
    /\ tokens[tok_i].type = "heading_open"
    /\ tokens[tok_i].tag = "h3"
    /\ LET heading_text == tokens[tok_i + 1].content
       IN  /\ IF ~current_part.is_none /\ ~current_lesson.is_none
                 THEN /\ current_lesson' =
                           [current_lesson EXCEPT
                              !.parts = Append(@, current_part)]
                      /\ UNCHANGED current_unit
              ELSE IF ~current_part.is_none /\ ~current_unit.is_none
                 THEN /\ current_unit' =
                           [current_unit EXCEPT
                              !.parts = Append(@, current_part)]
                      /\ UNCHANGED current_lesson
              ELSE UNCHANGED <<current_unit, current_lesson>>
           /\ current_part' = NewPart(heading_text)
    /\ tok_i' = tok_i + 2
    /\ UNCHANGED <<ppc, tokens, result_json>>
    /\ UNCHANGED <<mainVars, evalVars, cliVars, extractVars>>

\* parser.py 61-69: any other token; its content joins the part in progress.
ParseContent ==
    /\ ppc = "loop"
    /\ tok_i <= Len(tokens)
    /\ tokens[tok_i].type # "heading_open"
    /\ current_part' =
          IF ~current_part.is_none /\ tokens[tok_i].content # ""
             THEN [current_part EXCEPT
                     !.content = Append(@, tokens[tok_i].content)]
             ELSE current_part
    /\ tok_i' = tok_i + 1
    /\ UNCHANGED <<ppc, tokens, result_json, current_unit, current_lesson>>
    /\ UNCHANGED <<mainVars, evalVars, cliVars, extractVars>>

\* parser.py 71-75: the loop is over; the objects in progress are saved and
\* the result is returned.
ParseReturn ==
    /\ ppc = "loop"
    /\ tok_i > Len(tokens)
    /\ result_json' = save_state(result_json, current_unit, current_lesson,
                                 current_part)
    /\ ppc' = "done"
    /\ UNCHANGED <<tokens, tok_i, current_unit, current_lesson, current_part>>
    /\ UNCHANGED <<mainVars, evalVars, cliVars, extractVars>>

NextParse ==
    \/ ParseStart
    \/ ParseH1
    \/ ParseH2
    \/ ParseH3
    \/ ParseContent
    \/ ParseReturn

\* ============================================================ evaluate.py
\* Python's None for TitleMatch.best_match; no title equals it.
None == "None"

\* Titles of the evaluated maps.
Titles == {"A", "A'"}
GtTitles == {"A"}

\* Largest page number in an agent map. The ground truth's page fields are
\* all page 1: evaluate_with_llm reads a page field only to compare it with
\* the other side's, so an agent page of 1 agrees and any other differs.
MaxEvalPage == 2
GtPages == {1}
AgentPages == 1..MaxEvalPage

\* Largest number of unit and lesson records, together, in a ground truth
\* and in an agent map.
MaxGtRecords == 3
MaxAgentRecords == 3

EvalLessonRecs(T, P) ==
    [lesson_title : T, lesson_start_page : P, lesson_end_page : P]

EvalUnitRecs(n, T, P) ==
    [unit_title : T, unit_start_page : P, unit_end_page : P,
     lessons : SeqN(EvalLessonRecs(T, P), n)]

\* The unit lists that hold exactly w records (units and lessons together).
RECURSIVE EvalMapsOfWeight(_, _, _)
EvalMapsOfWeight(w, T, P) ==
    IF w = 0 THEN {<<>>}
    ELSE UNION { { <<u>> \o rest : u \in EvalUnitRecs(k - 1, T, P),
                                   rest \in EvalMapsOfWeight(w - k, T, P) }
                 : k \in 1..w }

\* The ground truths and the agent maps of at most maxw records.
GroundTruths(maxw) ==
    UNION { EvalMapsOfWeight(w, GtTitles, GtPages) : w \in 0..maxw }
AgentMaps(maxw) ==
    UNION { EvalMapsOfWeight(w, Titles, AgentPages) : w \in 0..maxw }

\* ------------------------------------------------------------ Python dicts
\* A dict is the sequence of its items in insertion order; an item binds a
\* key to the index, in the list the dict was built from, of its value.
\* DictPut that keeps the value a key already has.
DictPut_firstwins(d, k, i) ==
    IF \E j \in DOMAIN d : d[j].key = k
       THEN d
       ELSE Append(d, [key |-> k, idx |-> i])

\* d[k] = v: a new key is appended, a key already present keeps its position
\* and takes the new value.
DictPut(d, k, i) ==
    IF \E j \in DOMAIN d : d[j].key = k
       THEN [j \in DOMAIN d |->
               IF d[j].key = k THEN [key |-> k, idx |-> i] ELSE d[j]]
       ELSE Append(d, [key |-> k, idx |-> i])

\* {key(x): x for x in list}: a later record replaces the value of an
\* earlier one with the same key and keeps the earlier one's position.
RECURSIVE DictFrom(_, _)
DictFrom(keys, n) ==
    IF n = 0 THEN <<>> ELSE DictPut(DictFrom(keys, n - 1), keys[n], n)

DictKeys(d) == [j \in DOMAIN d |-> d[j].key]
HasKey(d, k) == \E j \in DOMAIN d : d[j].key = k
DictGet(d, k) == d[CHOOSE j \in DOMAIN d : d[j].key = k].idx
\* DictPop that reads the item and leaves it in the dict (d[k] for d.pop(k)).
DictPop_keep(d, k) == d

\* dict.pop(k) for a key the dict holds.
DictPop(d, k) == SelectSeq(d, LAMBDA e : e.key # k)

SeqSet(q) == { q[j] : j \in DOMAIN q }

RECURSIVE SumLens(_, _)
\* sum(len(u.get("lessons", [])) for u in units[:n])
SumLens(units, n) ==
    IF n = 0 THEN 0 ELSE SumLens(units, n - 1) + Len(units[n].lessons)

\* ------------------------------------------------------------- TitleMatch
\* Confidence is held in hundredths: 80 is 0.8.
TitleMatch(is_match, best_match, confidence, reasoning) ==
    [is_match |-> is_match, best_match |-> best_match,
     confidence |-> confidence, reasoning |-> reasoning]

Confidences == {79, 80}

\* The decisions the matching collaborator can return. best_match is read
\* only from an accepted decision, so a decision with is_match false carries
\* None there.
Decisions ==
    { TitleMatch(TRUE, b, c, "llm") : b \in Titles \cup {None}, c \in Confidences }
    \cup { TitleMatch(FALSE, None, c, "llm") : c \in Confidences }

\* evaluate.py 70: the decision returned when the call fails.
DefaultMatch == TitleMatch(FALSE, None, 0, "API call failed.")

\* What matcher_chain.invoke does: it raises, or it returns a decision.
ChainOutcomes ==
    {[raised |-> TRUE, response |-> DefaultMatch]} \cup
    { [raised |-> FALSE, response |-> d] : d \in Decisions }

\* evaluate.py 60-70: the result of find_best_semantic_match for one outcome
\* of the chain; `propagated` tells whether an exception left the function.
find_best_semantic_match(outcome) ==
    IF outcome.raised
       THEN [propagated |-> FALSE, value |-> DefaultMatch]
       ELSE [propagated |-> FALSE, value |-> outcome.response]

\* evaluate.py 96 and 122: the threshold, in hundredths.
Threshold == 80

\* Rejected with the comparison off by one (<= for <).
Rejected_offbyone(m) == ~m.is_match \/ m.confidence <= Threshold

\* evaluate.py 96 and 122: the test that rejects a decision.
Rejected(m) == ~m.is_match \/ m.confidence < Threshold

\* ----------------------------------------------------------- print_report
\* Guard that lets a zero denominator through (>= 0 for > 0).
Guard_nonneg(den) == den >= 0

\* evaluate.py 151-170: the conditions guarding each division.
Guard(den) == den > 0

\* num / den * 100 as print_report formats it ({:.2f}): hundredths of a
\* percent, rounded to the nearest; a zero divisor raises.
PyPercent(num, den) ==
    IF den = 0
       THEN [raised |-> TRUE, val |-> 0]
       ELSE [raised |-> FALSE,
             val |-> (2 * num * 10000 + den) \div (2 * den)]

Ratio(num, den) ==
    IF Guard(den) THEN PyPercent(num, den) ELSE [raised |-> FALSE, val |-> 0]

\* stats.get(key, default)
StatsGet(s, key, default) == IF key \in DOMAIN s THEN s[key] ELSE default

\* evaluate.py 146-181: the figures of the report.
print_report(s) ==
    LET gt_u == s.gt_units_count
        agent_u == s.agent_units_count
        matched_u == s.matched_units_count
        gt_l == s.gt_lessons_count
        matched_l == s.matched_lessons_count
        agent_l == StatsGet(s, "agent_lessons_count", 0)
        tp == s.total_page_comparisons
        recall_u == Ratio(matched_u, gt_u)
        precision_u == Ratio(matched_u, agent_u)
        recall_l == Ratio(matched_l, gt_l)
        precision_l == Ratio(matched_l, agent_l)
        page_accuracy == Ratio(tp - s.page_errors, tp)
    IN  [printed |-> TRUE,
         raised |-> recall_u.raised \/ precision_u.raised \/ recall_l.raised
                    \/ precision_l.raised \/ page_accuracy.raised,
         recall_u |-> recall_u.val, precision_u |-> precision_u.val,
         agent_l |-> agent_l,
         recall_l |-> recall_l.val, precision_l |-> precision_l.val,
         page_accuracy |-> page_accuracy.val,
         errors |-> s.errors]

NoReport ==
    [printed |-> FALSE, raised |-> FALSE, recall_u |-> 0, precision_u |-> 0,
     agent_l |-> 0, recall_l |-> 0, precision_l |-> 0, page_accuracy |-> 0,
     errors |-> <<>>]

\* ------------------------------------------------------ evaluate_with_llm
NoStats ==
    [gt_units_count |-> 0, agent_units_count |-> 0, matched_units_count |-> 0,
     gt_lessons_count |-> 0, matched_lessons_count |-> 0, page_errors |-> 0,
     total_page_comparisons |-> 0, errors |-> <<>>]

UnitTitles(units) == [j \in DOMAIN units |-> units[j].unit_title]
LessonTitles(lessons) == [j \in DOMAIN lessons |-> lessons[j].lesson_title]

\* evaluate.py 72-86: evaluate_with_llm is entered with the arguments gt and
\* agent; the initial stats and the unit pool.
StartEvaluation(gt, agent) ==
    /\ epc = "start"
    /\ ground_truth_units' = gt
    /\ agent_units' = agent
    /\ stats' = [gt_units_count |-> Len(gt),
                 agent_units_count |-> Len(agent),
                 matched_units_count |-> 0,
                 gt_lessons_count |-> SumLens(gt, Len(gt)),
                 matched_lessons_count |-> 0,
                 page_errors |-> 0, total_page_comparisons |-> 0,
                 errors |-> <<>>]
    /\ available_agent_units' = DictFrom(UnitTitles(agent), Len(agent))
    /\ gt_i' = 1
    /\ epc' = "unit"
    /\ UNCHANGED <<available_agent_lessons, gt_lesson_i, match_result, calls,
                   report>>

\* evaluate.py 72: a call of evaluate_with_llm with any two lists.
EvaluateStart ==
    /\ epc = "start"
    /\ \E gt \in GroundTruths(MaxGtRecords),
          agent \in AgentMaps(MaxAgentRecords) :
          StartEvaluation(gt, agent)
    /\ UNCHANGED <<mainVars, cliVars, extractVars, parseVars>>

\* MissingUnit that files the discrepancy as a missing lesson.
MissingUnit_aslesson(gt_title, reasoning) ==
    [kind |-> "MISSING LESSON", title |-> gt_title, unit |-> gt_title,
     reason |-> reasoning, gt |-> 0, agent |-> 0]

\* The discrepancy strings of stats["errors"], by their fields.
MissingUnit(gt_title, reasoning) ==
    [kind |-> "MISSING UNIT", title |-> gt_title, unit |-> gt_title,
     reason |-> reasoning, gt |-> 0, agent |-> 0]
MissingLesson(gt_title, gt_lesson_title, reasoning) ==
    [kind |-> "MISSING LESSON", title |-> gt_lesson_title, unit |-> gt_title,
     reason |-> reasoning, gt |-> 0, agent |-> 0]
PageMismatch(kind, title, gt, agent) ==
    [kind |-> kind, title |-> title, unit |-> title, reason |-> "",
     gt |-> gt, agent |-> agent]
ExtraUnit(extra_title) ==
    [kind |-> "EXTRA UNIT", title |-> extra_title, unit |-> extra_title,
     reason |-> "", gt |-> 0, agent |-> 0]

\* PageErrors that compares the start pages only.
PageErrors_startonly(kind_start, kind_end, title, gt_start, gt_end, a_start, a_end) ==
    IF gt_start # a_start
       THEN << PageMismatch(kind_start, title, gt_start, a_start) >>
       ELSE <<>>

\* evaluate.py 107-113 and 131-137: the comparison of the two page fields
\* of a matched pair; the errors it appends.
PageErrors(kind_start, kind_end, title, gt_start, gt_end, a_start, a_end) ==
    (IF gt_start # a_start
        THEN << PageMismatch(kind_start, title, gt_start, a_start) >>
        ELSE <<>>)
    \o
    (IF gt_end # a_end
        THEN << PageMismatch(kind_end, title, gt_end, a_end) >>
        ELSE <<>>)

\* One matcher invocation and what became of it.
Call(level, unit, title, candidates, raised, outcome, best, agent) ==
    [level |-> level, unit |-> unit, title |-> title,
     candidates |-> candidates, raised |-> raised, outcome |-> outcome,
     best |-> best, agent |-> agent]

\* evaluate.py 89-116: one ground-truth unit.
UnitMatch ==
    /\ epc = "unit"
    /\ gt_i <= Len(ground_truth_units)
    /\ \E outcome \in ChainOutcomes :
         LET gt_unit == ground_truth_units[gt_i]
             gt_title == gt_unit.unit_title
             candidates == DictKeys(available_agent_units)
             res == find_best_semantic_match(outcome)
             m == res.value
             agent_unit_title == m.best_match
         IN
         IF res.propagated
            THEN /\ epc' = "crashed"
                 /\ calls' = Append(calls, Call("unit", gt_i, gt_title,
                                      candidates,
                                      outcome.raised, "exception", None, 0))
                 /\ UNCHANGED <<stats, available_agent_units,
                                available_agent_lessons, gt_i, gt_lesson_i,
                                match_result>>
         ELSE IF Rejected(m)
            THEN /\ stats' = [stats EXCEPT !.errors =
                                Append(@, MissingUnit(gt_title, m.reasoning))]
                 /\ gt_i' = gt_i + 1
                 /\ match_result' = m
                 /\ calls' = Append(calls, Call("unit", gt_i, gt_title,
                                      candidates,
                                      outcome.raised, "rejected", None, 0))
                 /\ UNCHANGED <<epc, available_agent_units,
                                available_agent_lessons, gt_lesson_i>>
         ELSE IF ~HasKey(available_agent_units, agent_unit_title)
            THEN \* dict.pop raises KeyError
                 /\ epc' = "crashed"
                 /\ match_result' = m
                 /\ calls' = Append(calls, Call("unit", gt_i, gt_title,
                                      candidates,
                                      outcome.raised, "keyerror",
                                      agent_unit_title, 0))
                 /\ UNCHANGED <<stats, available_agent_units,
                                available_agent_lessons, gt_i, gt_lesson_i>>
         ELSE LET a == DictGet(available_agent_units, agent_unit_title)
                  agent_unit == agent_units[a]
                  errs == PageErrors("PAGE MISMATCH (Unit Start)",
                                     "PAGE MISMATCH (Unit End)", gt_title,
                                     gt_unit.unit_start_page,
                                     gt_unit.unit_end_page,
                                     agent_unit.unit_start_page,
                                     agent_unit.unit_end_page)
              IN /\ available_agent_units' =
                       DictPop(available_agent_units, agent_unit_title)
                 /\ stats' = [stats EXCEPT
                       !.matched_units_count = @ + 1,
                       !.total_page_comparisons = @ + 2,
                       !.page_errors = @ + Len(errs),
                       !.errors = @ \o errs]
                 /\ available_agent_lessons' =
                       DictFrom(LessonTitles(agent_unit.lessons),
                                Len(agent_unit.lessons))
                 /\ gt_lesson_i' = 1
                 /\ match_result' = m
                 /\ calls' = Append(calls, Call("unit", gt_i, gt_title,
                                      candidates,
                                      outcome.raised, "accepted",
                                      agent_unit_title, a))
                 /\ epc' = "lesson"
                 /\ UNCHANGED gt_i
    /\ UNCHANGED <<ground_truth_units, agent_units, report>>
    /\ UNCHANGED <<mainVars, cliVars, extractVars, parseVars>>

\* The agent unit matched to the ground-truth unit being walked.
MatchedAgentUnit ==
    LET j == CHOOSE j \in DOMAIN calls :
               calls[j].level = "unit" /\ calls[j].unit = gt_i
               /\ calls[j].outcome = "accepted"
    IN  calls[j].agent

\* evaluate.py 117-137: one ground-truth lesson of a matched unit.
LessonMatch ==
    /\ epc = "lesson"
    /\ gt_lesson_i <= Len(ground_truth_units[gt_i].lessons)
    /\ \E outcome \in ChainOutcomes :
         LET gt_title == ground_truth_units[gt_i].unit_title
             gt_lesson == ground_truth_units[gt_i].lessons[gt_lesson_i]
             gt_lesson_title == gt_lesson.lesson_title
             candidates == DictKeys(available_agent_lessons)
             res == find_best_semantic_match(outcome)
             m == res.value
             agent_lesson_title == m.best_match
         IN
         IF res.propagated
            THEN /\ epc' = "crashed"
                 /\ calls' = Append(calls, Call("lesson", gt_i,
                                      gt_lesson_title, candidates, outcome.raised,
                                      "exception", None, 0))
                 /\ UNCHANGED <<stats, available_agent_lessons, gt_lesson_i,
                                match_result>>
         ELSE IF Rejected(m)
            THEN /\ stats' = [stats EXCEPT !.errors =
                                Append(@, MissingLesson(gt_title,
                                            gt_lesson_title, m.reasoning))]
                 /\ gt_lesson_i' = gt_lesson_i + 1
                 /\ match_result' = m
                 /\ calls' = Append(calls, Call("lesson", gt_i,
                                      gt_lesson_title, candidates, outcome.raised,
                                      "rejected", None, 0))
                 /\ UNCHANGED <<epc, available_agent_lessons>>
         ELSE IF ~HasKey(available_agent_lessons, agent_lesson_title)
            THEN \* dict.pop raises KeyError
                 /\ epc' = "crashed"
                 /\ match_result' = m
                 /\ calls' = Append(calls, Call("lesson", gt_i,
                                      gt_lesson_title, candidates, outcome.raised,
                                      "keyerror", agent_lesson_title, 0))
                 /\ UNCHANGED <<stats, available_agent_lessons, gt_lesson_i>>
         ELSE LET a == DictGet(available_agent_lessons, agent_lesson_title)
                  agent_lesson == agent_units[MatchedAgentUnit].lessons[a]
                  errs == PageErrors("PAGE MISMATCH (Lesson Start)",
                                     "PAGE MISMATCH (Lesson End)",
                                     gt_lesson_title,
                                     gt_lesson.lesson_start_page,
                                     gt_lesson.lesson_end_page,
                                     agent_lesson.lesson_start_page,
                                     agent_lesson.lesson_end_page)
              IN /\ available_agent_lessons' =
                       DictPop(available_agent_lessons, agent_lesson_title)
                 /\ stats' = [stats EXCEPT
                       !.matched_lessons_count = @ + 1,
                       !.total_page_comparisons = @ + 2,
                       !.page_errors = @ + Len(errs),
                       !.errors = @ \o errs]
                 /\ gt_lesson_i' = gt_lesson_i + 1
                 /\ match_result' = m
                 /\ calls' = Append(calls, Call("lesson", gt_i,
                                      gt_lesson_title, candidates, outcome.raised,
                                      "accepted", agent_lesson_title, a))
                 /\ UNCHANGED epc
    /\ UNCHANGED <<ground_truth_units, agent_units, available_agent_units,
                   gt_i, report>>
    /\ UNCHANGED <<mainVars, cliVars, extractVars, parseVars>>

\* evaluate.py 117 and 89: the lessons of the ground-truth unit are
\* exhausted; the outer loop takes the next unit.
LessonsDone ==
    /\ epc = "lesson"
    /\ gt_lesson_i > Len(ground_truth_units[gt_i].lessons)
    /\ gt_i' = gt_i + 1
    /\ epc' = "unit"
    /\ UNCHANGED <<ground_truth_units, agent_units, stats,
                   available_agent_units, available_agent_lessons,
                   gt_lesson_i, match_result, calls, report>>
    /\ UNCHANGED <<mainVars, cliVars, extractVars, parseVars>>

\* ExtraErrors that walks the agent's units instead of the pool.
ExtraErrors_all(pool) ==
    [j \in DOMAIN agent_units |-> ExtraUnit(agent_units[j].unit_title)]

\* evaluate.py 140-141: one extra-unit error for each title left in the pool.
ExtraErrors(pool) == [j \in DOMAIN pool |-> ExtraUnit(pool[j].key)]

\* evaluate.py 139-144: the units left in the pool are extras, and the
\* report is printed from the stats.
Finish ==
    /\ epc = "unit"
    /\ gt_i > Len(ground_truth_units)
    /\ LET extras == ExtraErrors(available_agent_units)
           final == [stats EXCEPT !.errors = @ \o extras]
       IN  /\ stats' = final
           /\ report' = print_report(final)
           /\ epc' = IF print_report(final).raised THEN "crashed" ELSE "done"
    /\ UNCHANGED <<ground_truth_units, agent_units, available_agent_units,
                   available_agent_lessons, gt_i, gt_lesson_i, match_result,
                   calls>>
    /\ UNCHANGED <<mainVars, cliVars, extractVars, parseVars>>

\* evaluate.py 146-181: print_report called on a stats dict.
PrintReport ==
    /\ epc = "report"
    /\ report' = print_report(stats)
    /\ epc' = IF print_report(stats).raised THEN "crashed" ELSE "done"
    /\ UNCHANGED <<ground_truth_units, agent_units, stats,
                   available_agent_units, available_agent_lessons, gt_i,
                   gt_lesson_i, match_result, calls>>
    /\ UNCHANGED <<mainVars, cliVars, extractVars, parseVars>>

NextEval ==
    \/ EvaluateStart
    \/ UnitMatch
    \/ LessonMatch
    \/ LessonsDone
    \/ Finish

\* ------------------------------------------------- main() of evaluate.py
\* A file handed to load_json_file: absent, not parsable as JSON, JSON that
\* is not a list, or a JSON list of units.
MissingFile == [kind |-> "missing", units |-> <<>>]
UnparsableFile == [kind |-> "unparsable", units |-> <<>>]
NotListFile == [kind |-> "not_list", units |-> <<>>]
ListFile(units) == [kind |-> "list", units |-> units]
Files(lists) ==
    {MissingFile, UnparsableFile, NotListFile}
    \cup { ListFile(units) : units \in lists }

\* A printed line: its text and the path it names, if any.
Message(text, path) == [text |-> text, path |-> path]

\* evaluate.py 47-58: what load_json_file returns for the file f at
\* file_path, and what it prints. A JSON value that is not a list gives None
\* without a message.
load_json_file(f, file_path) ==
    IF f.kind = "missing"
       THEN [data |-> NoneMap,
             printed |-> << Message("File not found", file_path) >>]
    ELSE IF f.kind = "unparsable"
       THEN [data |-> NoneMap,
             printed |-> << Message("Error loading", file_path) >>]
    ELSE IF f.kind = "not_list"
       THEN [data |-> NoneMap, printed |-> <<>>]
    ELSE [data |-> ListMap(f.units), printed |-> <<>>]

\* A call of load_json_file: the path and the kind of file found there.
Load(file_path, f) == [path |-> file_path, kind |-> f.kind]

\* evaluate.py 189: the ground truth is loaded.
LoadGroundTruth ==
    /\ cpc = "start"
    /\ \E f \in Files(GroundTruths(MaxGtRecords)) :
          /\ gt_data' = load_json_file(f, "ground_truth_path").data
          /\ console' =
                console \o load_json_file(f, "ground_truth_path").printed
          /\ loads' = Append(loads, Load("ground_truth_path", f))
    /\ cpc' = "gt_loaded"
    /\ UNCHANGED agent_data
    /\ UNCHANGED <<mainVars, evalVars, extractVars, parseVars>>

\* evaluate.py 190: the agent map is loaded, whatever the first load gave.
LoadAgentMap ==
    /\ cpc = "gt_loaded"
    /\ \E f \in Files(AgentMaps(MaxAgentRecords)) :
          /\ agent_data' = load_json_file(f, "agent_map_path").data
          /\ console' =
                console \o load_json_file(f, "agent_map_path").printed
          /\ loads' = Append(loads, Load("agent_map_path", f))
    /\ cpc' = "loaded"
    /\ UNCHANGED gt_data
    /\ UNCHANGED <<mainVars, evalVars, extractVars, parseVars>>

\* MustStop that stops only when both loads gave nothing (`and` for `or`).
MustStop_both(gt, agent) == Falsy(gt) /\ Falsy(agent)

\* evaluate.py 192: `not gt_data or not agent_data`.
MustStop(gt, agent) == Falsy(gt) \/ Falsy(agent)

\* evaluate.py 192-196: main() stops, or calls evaluate_with_llm on the two
\* loaded lists.
MainGuard ==
    /\ cpc = "loaded"
    /\ IF MustStop(gt_data, agent_data)
          THEN /\ console' = Append(console,
                                     Message("Evaluation cannot proceed", ""))
               /\ cpc' = "stopped"
               /\ UNCHANGED evalVars
          ELSE /\ StartEvaluation(gt_data.units, agent_data.units)
               /\ cpc' = "called"
               /\ UNCHANGED console
    /\ UNCHANGED <<gt_data, agent_data, loads>>
    /\ UNCHANGED <<mainVars, extractVars, parseVars>>

\* main() of evaluate.py, with the evaluation it calls.
NextCli ==
    \/ LoadGroundTruth
    \/ LoadAgentMap
    \/ MainGuard
    \/ UnitMatch
    \/ LessonMatch
    \/ LessonsDone
    \/ Finish

\* ---------------------------------------------------------- specifications
\* Neither main() of main.py nor evaluate_with_llm has run a statement.
Init ==
    /\ pc = "start"
    /\ structure_map = NoneMap
    /\ map_file = FALSE
    /\ pdf_state = "unopened"
    /\ total_pages = 0
    /\ final_units = <<>>
    /\ unit_i = 0
    /\ lesson_i = 0
    /\ unit_obj = NoUnit
    /\ last_processed_page = 0
    /\ final_file = FALSE
    /\ epc = "start"
    /\ ground_truth_units = <<>>
    /\ agent_units = <<>>
    /\ stats = NoStats
    /\ available_agent_units = <<>>
    /\ available_agent_lessons = <<>>
    /\ gt_i = 0
    /\ gt_lesson_i = 0
    /\ match_result = DefaultMatch
    /\ calls = <<>>
    /\ report = NoReport
    /\ cpc = "start"
    /\ gt_data = NoneMap
    /\ agent_data = NoneMap
    /\ console = <<>>
    /\ loads = <<>>
    /\ extraction = NoExtraction
    /\ ppc = "start"
    /\ tokens = <<>>
    /\ tok_i = 1
    /\ result_json = <<>>
    /\ current_unit = NoneUnit
    /\ current_lesson = NoneLesson
    /\ current_part = NonePart

\* The assembly pipeline of main.py.
SpecMain == Init /\ [][NextMain]_vars

\* One call of evaluate_with_llm.
SpecEval == Init /\ [][NextEval]_vars

\* Largest value of a count of a stats dict handed to print_report.
MaxCount == 2

\* The stats dicts print_report may be handed: the keys evaluate_with_llm
\* sets (evaluate.py 74-82), with or without the agent_lessons_count that
\* print_report looks up (evaluate.py 160).
StatsDicts ==
    [gt_units_count : 0..MaxCount,
     agent_units_count : 0..MaxCount,
     matched_units_count : 0..MaxCount,
     gt_lessons_count : 0..MaxCount,
     matched_lessons_count : 0..MaxCount,
     page_errors : 0..MaxCount,
     total_page_comparisons : 0..MaxCount,
     errors : {<<>>}]
    \cup
    [gt_units_count : 0..MaxCount,
     agent_units_count : 0..MaxCount,
     matched_units_count : 0..MaxCount,
     gt_lessons_count : 0..MaxCount,
     matched_lessons_count : 0..MaxCount,
     agent_lessons_count : 0..MaxCount,
     page_errors : 0..MaxCount,
     total_page_comparisons : 0..MaxCount,
     errors : {<<>>}]

\* print_report is about to be called on a stats dict with any counts.
InitReport ==
    /\ pc = "start"
    /\ structure_map = NoneMap
    /\ map_file = FALSE
    /\ pdf_state = "unopened"
    /\ total_pages = 0
    /\ final_units = <<>>
    /\ unit_i = 0
    /\ lesson_i = 0
    /\ unit_obj = NoUnit
    /\ last_processed_page = 0
    /\ final_file = FALSE
    /\ epc = "report"
    /\ ground_truth_units = <<>>
    /\ agent_units = <<>>
    /\ stats \in StatsDicts
    /\ available_agent_units = <<>>
    /\ available_agent_lessons = <<>>
    /\ gt_i = 0
    /\ gt_lesson_i = 0
    /\ match_result = DefaultMatch
    /\ calls = <<>>
    /\ report = NoReport
    /\ cpc = "start"
    /\ gt_data = NoneMap
    /\ agent_data = NoneMap
    /\ console = <<>>
    /\ loads = <<>>
    /\ extraction = NoExtraction
    /\ ppc = "start"
    /\ tokens = <<>>
    /\ tok_i = 1
    /\ result_json = <<>>
    /\ current_unit = NoneUnit
    /\ current_lesson = NoneLesson
    /\ current_part = NonePart

\* The evaluator run from the command line.
SpecCli == Init /\ [][NextCli]_vars

\* print_report alone, on every stats dict within the bounds.
SpecReport == InitReport /\ [][PrintReport]_vars

\* extract_text_from_pages is about to be called with any arguments.
InitExtract ==
    /\ pc = "start"
    /\ structure_map = NoneMap
    /\ map_file = FALSE
    /\ pdf_state = "unopened"
    /\ total_pages = 0
    /\ final_units = <<>>
    /\ unit_i = 0
    /\ lesson_i = 0
    /\ unit_obj = NoUnit
    /\ last_processed_page = 0
    /\ final_file = FALSE
    /\ epc = "start"
    /\ ground_truth_units = <<>>
    /\ agent_units = <<>>
    /\ stats = NoStats
    /\ available_agent_units = <<>>
    /\ available_agent_lessons = <<>>
    /\ gt_i = 0
    /\ gt_lesson_i = 0
    /\ match_result = DefaultMatch
    /\ calls = <<>>
    /\ report = NoReport
    /\ cpc = "start"
    /\ gt_data = NoneMap
    /\ agent_data = NoneMap
    /\ console = <<>>
    /\ loads = <<>>
    /\ extraction \in Extractions
    /\ ppc = "start"
    /\ tokens = <<>>
    /\ tok_i = 1
    /\ result_json = <<>>
    /\ current_unit = NoneUnit
    /\ current_lesson = NoneLesson
    /\ current_part = NonePart

\* extract_text_from_pages alone, on every argument within the bounds.
SpecExtract == InitExtract /\ [][ExtractCall]_vars

\* parse_golden_markdown_to_json is about to be called on any document.
InitParse ==
    /\ pc = "start"
    /\ structure_map = NoneMap
    /\ map_file = FALSE
    /\ pdf_state = "unopened"
    /\ total_pages = 0
    /\ final_units = <<>>
    /\ unit_i = 0
    /\ lesson_i = 0
    /\ unit_obj = NoUnit
    /\ last_processed_page = 0
    /\ final_file = FALSE
    /\ epc = "start"
    /\ ground_truth_units = <<>>
    /\ agent_units = <<>>
    /\ stats = NoStats
    /\ available_agent_units = <<>>
    /\ available_agent_lessons = <<>>
    /\ gt_i = 0
    /\ gt_lesson_i = 0
    /\ match_result = DefaultMatch
    /\ calls = <<>>
    /\ report = NoReport
    /\ cpc = "start"
    /\ gt_data = NoneMap
    /\ agent_data = NoneMap
    /\ console = <<>>
    /\ loads = <<>>
    /\ extraction = NoExtraction
    /\ ppc = "start"
    /\ tokens \in TokenLists(MaxBlocks)
    /\ tok_i = 1
    /\ result_json = <<>>
    /\ current_unit = NoneUnit
    /\ current_lesson = NoneLesson
    /\ current_part = NonePart

\* parse_golden_markdown_to_json alone, on every document within the bounds.
SpecParse == InitParse /\ [][NextParse]_vars

\* ================================================================= claims
\* ---- the output of the assembly pass
\* main() has run the assembly pass to its end (main.py 51-97).
Assembled == pc \in {"close", "write"} \/ (pc = "done" /\ pdf_state = "closed")

\* The front matter step of main() is behind (main.py 51-59).
PastFrontMatter == pc \in {"unit", "lesson"} \/ Assembled

\* The nominal page ranges of every Lesson and Segment of the output.
RECURSIVE Items(_, _)
Items(units, n) ==
    IF n = 0 THEN <<>>
    ELSE Items(units, n - 1)
         \o [j \in DOMAIN units[n].lessons |->
               <<units[n].lessons[j].start_page, units[n].lessons[j].end_page>>]
         \o [j \in DOMAIN units[n].parts |->
               <<units[n].parts[j].start_page, units[n].parts[j].end_page>>]

\* How many Lessons and Segments of the output cover page p.
CoverCount(p) ==
    LET it == Items(final_units, Len(final_units))
    IN  Cardinality({ j \in DOMAIN it : it[j][1] <= p /\ p <= it[j][2] })

IsIntro(u) == \E j \in DOMAIN u.parts : u.parts[j].title = "Introduction Content"
IsAfterword(u) == \E j \in DOMAIN u.parts : u.parts[j].title = "Afterword Content"

\* A mapper output that is start-ascending and internally consistent in the
\* strictest sense: every range has 1 <= start <= end <= n, units ascend
\* without overlapping, and the lessons of a unit lie inside it and ascend
\* without overlapping.
WellFormedMap(units, n) ==
    /\ units # <<>>
    /\ \A i \in DOMAIN units :
          /\ 1 <= units[i].unit_start_page
          /\ units[i].unit_start_page <= units[i].unit_end_page
          /\ units[i].unit_end_page <= n
          /\ \A j \in DOMAIN units[i].lessons :
                LET l == units[i].lessons[j]
                IN  /\ units[i].unit_start_page <= l.lesson_start_page
                    /\ l.lesson_start_page <= l.lesson_end_page
                    /\ l.lesson_end_page <= units[i].unit_end_page
          /\ \A j, k \in DOMAIN units[i].lessons :
                j < k => units[i].lessons[j].lesson_end_page
                           < units[i].lessons[k].lesson_start_page
    /\ \A i, k \in DOMAIN units :
          i < k => units[i].unit_end_page < units[k].unit_start_page

\* C1: total coverage. After the assembly pass over a well-formed mapper
\* output, every page of [1, total_pages] is covered by exactly one Lesson
\* or Segment.
C1_TotalCoverage ==
    (Assembled /\ WellFormedMap(structure_map.units, total_pages))
       => \A p \in 1..total_pages : CoverCount(p) = 1

\* C9: front matter. Once the front-matter step has run, the output holds an
\* introductory Segment exactly when the first mapped unit starts after page
\* 1; it then covers exactly [1, start - 1] and is the first entry of the
\* output, and no later entry is introductory.
C9_FrontMatter ==
    PastFrontMatter =>
       LET start == structure_map.units[1].unit_start_page
           has == final_units # <<>> /\ IsIntro(final_units[1])
       IN  /\ has <=> start > 1
           /\ has => /\ final_units[1].start_page = 1
                     /\ final_units[1].end_page = start - 1
                     /\ final_units[1].lessons = <<>>
                     /\ Len(final_units[1].parts) = 1
                     /\ final_units[1].parts[1].start_page = 1
                     /\ final_units[1].parts[1].end_page = start - 1
           /\ \A i \in DOMAIN final_units : i > 1 => ~IsIntro(final_units[i])

\* A finished run whose output begins with the introduction, followed by the
\* mapped units.
C9_Witness ==
    /\ pc = "done"
    /\ Len(final_units) >= 2
    /\ IsIntro(final_units[1])
    /\ final_units[1].end_page = 2

\* C10: appendix. After the assembly pass the output ends with an appendix
\* Segment covering exactly [last_end + 1, total_pages] exactly when the
\* last mapped unit's end is less than total_pages.
C10_Appendix ==
    Assembled =>
       LET last_end ==
             structure_map.units[Len(structure_map.units)].unit_end_page
           has == final_units # <<>> /\ IsAfterword(final_units[Len(final_units)])
       IN  /\ has <=> last_end < total_pages
           /\ has => /\ final_units[Len(final_units)].start_page = last_end + 1
                     /\ final_units[Len(final_units)].end_page = total_pages
           /\ \A i \in DOMAIN final_units :
                 i < Len(final_units) => ~IsAfterword(final_units[i])

\* ---- the evaluation
\* The matcher invocations of one level that were accepted.
Accepted(level) ==
    { j \in DOMAIN calls : calls[j].level = level /\ calls[j].outcome = "accepted" }

\* Two invocations draw on the same pool: the unit pool, or the lesson pool
\* built for one ground-truth unit.
SamePool(j, k) ==
    /\ calls[j].level = calls[k].level
    /\ calls[j].level = "lesson" => calls[j].unit = calls[k].unit

\* C2: one-to-one consumption. No agent unit is matched to two ground-truth
\* units and, within a matched unit, no agent lesson to two ground-truth
\* lessons; the candidate list of a matcher call never holds a title that an
\* earlier call on the same pool consumed.
C2_OneToOne ==
    \A j, k \in DOMAIN calls :
       (j < k /\ SamePool(j, k) /\ calls[j].outcome = "accepted")
          => /\ calls[j].best \notin SeqSet(calls[k].candidates)
             /\ calls[k].outcome = "accepted"
                   => /\ calls[k].agent # calls[j].agent
                      /\ calls[k].best # calls[j].best

\* A unit was consumed, then a lesson of it, and a later lesson-level call
\* on the same pool, which still held a candidate, consumed another lesson.
C2_Witness ==
    \E j, k \in Accepted("lesson") :
       /\ j < k
       /\ calls[j].unit = calls[k].unit
       /\ Len(calls[j].candidates) = 2
       /\ calls[k].candidates # <<>>
       /\ Accepted("unit") # {}

\* C3: graceful degradation. A matcher call that failed was answered with
\* the default decision and not with an exception, its title is recorded as
\* missing with the failure reasoning, and the evaluation is not aborted: it
\* goes on to the remaining ground-truth units and the report.
C3_GracefulDegradation ==
    \A j \in DOMAIN calls :
       calls[j].raised
          => /\ calls[j].outcome = "rejected"
             /\ \E e \in DOMAIN stats.errors :
                   /\ stats.errors[e].kind =
                         (IF calls[j].level = "unit" THEN "MISSING UNIT"
                                                     ELSE "MISSING LESSON")
                   /\ stats.errors[e].title = calls[j].title
                   /\ stats.errors[e].reason = "API call failed."
             /\ epc # "crashed"

\* C4: acceptance rule. A step that calls the matcher treats the decision as
\* a match exactly when is_match is true and confidence >= 0.8; otherwise it
\* appends one missing-unit or missing-lesson discrepancy and changes
\* neither a pool nor any count.
C4_AcceptanceRule ==
    [][ calls' # calls =>
          LET c == calls'[Len(calls')]
              m == match_result'
              accept == m.is_match /\ m.confidence >= 80
              missing ==
                IF c.level = "unit"
                   THEN MissingUnit(c.title, m.reasoning)
                   ELSE MissingLesson(ground_truth_units[gt_i].unit_title,
                                      c.title, m.reasoning)
          IN  /\ c.outcome # "rejected" <=> accept
              /\ ~accept =>
                    /\ stats' = [stats EXCEPT !.errors = Append(@, missing)]
                    /\ available_agent_units' = available_agent_units
                    /\ available_agent_lessons' = available_agent_lessons
              /\ accept =>
                    \A e \in DOMAIN stats'.errors :
                       e > Len(stats.errors) =>
                          stats'.errors[e].kind
                             \notin {"MISSING UNIT", "MISSING LESSON"}
      ]_vars

\* A decision with is_match true and confidence 0.79 was treated as a
\* non-match: the last discrepancy is the missing unit.
C4_Witness ==
    /\ calls # <<>>
    /\ calls[Len(calls)].level = "unit"
    /\ calls[Len(calls)].outcome = "rejected"
    /\ match_result.is_match /\ match_result.confidence = 79
    /\ stats.errors # <<>>
    /\ stats.errors[Len(stats.errors)].kind = "MISSING UNIT"

\* The extra-unit discrepancies of the report, in order.
ExtraUnitErrors ==
    SelectSeq(report.errors, LAMBDA e : e.kind = "EXTRA UNIT")

\* C5: extra units. The finished report holds exactly one extra-unit
\* discrepancy for each title still in the pool and none for a consumed
\* title; ground truth [A], agent [A, A'] with A accepted gives one matched
\* unit and the single extra unit A'.
C5_ExtraUnits ==
    epc = "done" =>
       /\ ExtraUnitErrors =
             [j \in DOMAIN available_agent_units |->
                ExtraUnit(available_agent_units[j].key)]
       /\ \A j \in Accepted("unit"), e \in DOMAIN ExtraUnitErrors :
             ExtraUnitErrors[e].title # calls[j].best
       /\ \A e, f \in DOMAIN ExtraUnitErrors :
             e # f => ExtraUnitErrors[e].title # ExtraUnitErrors[f].title
       /\ ( /\ Len(ground_truth_units) = 1
            /\ UnitTitles(agent_units) = <<"A", "A'">>
            /\ calls[1].outcome = "accepted" /\ calls[1].best = "A" )
          => /\ stats.matched_units_count = 1
             /\ ExtraUnitErrors = << ExtraUnit("A'") >>

\* Ground truth [A], agent [A, A'], A accepted, report printed.
C5_Witness ==
    /\ epc = "done"
    /\ Len(ground_truth_units) = 1
    /\ UnitTitles(agent_units) = <<"A", "A'">>
    /\ calls[1].outcome = "accepted" /\ calls[1].best = "A"
    /\ Len(ExtraUnitErrors) = 1

\* C6: extra lessons. In the finished report, every lesson title of a matched
\* agent unit that no ground-truth lesson consumed has an extra-lesson
\* discrepancy.
C6_ExtraLessons ==
    epc = "done" =>
       \A j \in Accepted("unit") :
          LET lessons == agent_units[calls[j].agent].lessons
              consumed == { calls[k].best :
                              k \in { k \in Accepted("lesson") :
                                        calls[k].unit = calls[j].unit } }
          IN  \A t \in SeqSet(LessonTitles(lessons)) \ consumed :
                 \E e \in DOMAIN report.errors :
                    /\ report.errors[e].kind = "EXTRA LESSON"
                    /\ report.errors[e].title = t

\* The number of lessons the agent produced, over all its units.
AgentLessonsCount == SumLens(agent_units, Len(agent_units))

\* C7: lesson precision. When the agent map holds a lesson, the report's
\* "Agent Found Lessons" is the agent's lesson count and its lesson
\* precision is matched_lessons_count over that count. Stated for the
\* evaluations that matched a lesson, where the precision is not 0.
C7_LessonPrecision ==
    (epc = "done" /\ AgentLessonsCount >= 1
       /\ stats.matched_lessons_count >= 1)
       => /\ report.agent_l = AgentLessonsCount
          /\ report.precision_l =
                PyPercent(stats.matched_lessons_count, AgentLessonsCount).val

\* C8: zero-denominator ratios. print_report divides by no zero, and each
\* ratio whose denominator is 0 is reported as 0.
C8_ZeroDenominators ==
    epc \in {"done", "crashed"} =>
       /\ report.printed /\ ~report.raised /\ epc = "done"
       /\ stats.gt_units_count = 0 => report.recall_u = 0
       /\ stats.agent_units_count = 0 => report.precision_u = 0
       /\ stats.gt_lessons_count = 0 => report.recall_l = 0
       /\ report.agent_l = 0 => report.precision_l = 0
       /\ stats.total_page_comparisons = 0 => report.page_accuracy = 0

\* A report printed from stats whose denominators are all 0 while the
\* numerators are not.
C8_Witness ==
    /\ report.printed
    /\ stats.gt_units_count = 0 /\ stats.agent_units_count = 0
    /\ stats.gt_lessons_count = 0 /\ stats.total_page_comparisons = 0
    /\ stats.matched_units_count = 2 /\ stats.matched_lessons_count = 2
    /\ stats.page_errors = 2

\* ---- extract_text_from_pages
\* C11: defensive clamping. A call of extract_text_from_pages with any
\* start_page and end_page loads exactly the pages p with
\* max(1, start_page) <= p <= min(total_pages, end_page), each once and in
\* ascending order, and requests no page outside [1, total_pages]; when no
\* such page exists nothing is loaded and the content is empty.
C11_Clamping ==
    extraction.called =>
       LET n == extraction.n
           loaded == extraction.loaded
           want == { p \in 1..n : /\ Max(1, extraction.start_page) <= p
                                  /\ p <= Min(n, extraction.end_page) }
       IN  /\ \A j \in DOMAIN loaded : loaded[j] \in 0..(n - 1)
           /\ { loaded[j] + 1 : j \in DOMAIN loaded } = want
           /\ Len(loaded) = Cardinality(want)
           /\ \A j, k \in DOMAIN loaded : j < k => loaded[j] < loaded[k]
           /\ want = {} => loaded = <<>>

\* A call with start_page below 1 and end_page above the page count loaded
\* the whole document, and nothing else.
C11_Witness ==
    /\ extraction.called
    /\ extraction.n = 2
    /\ extraction.start_page < 1
    /\ extraction.end_page > extraction.n
    /\ extraction.loaded = <<0, 1>>

\* ---- the files and the PDF handle of main.py
\* C12: resource release. Whenever main() has ended, by its return or by an
\* exception raised during the assembly, a PDF that was opened is closed.
C12_ResourceRelease ==
    pc \in {"done", "crashed"} => pdf_state # "open"

\* The mapper returned a structure: a list holding at least one unit.
MapperSucceeded == ~structure_map.is_none /\ structure_map.units # <<>>

\* The number of entries of a fully assembled output: every mapped unit,
\* the introduction if there is one, the appendix if there is one.
FullOutputLen ==
    LET units == structure_map.units
    IN  Len(units)
        + (IF units[1].unit_start_page > 1 THEN 1 ELSE 0)
        + (IF HasAfterword(units[Len(units)].unit_end_page, total_pages)
              THEN 1 ELSE 0)

\* C13: stage ordering and no partial output. The map file exists only once
\* the mapper has returned a structure, and exists before the PDF is opened
\* for extraction; when the mapper fails neither file is written; the final
\* JSON exists only once the front matter, every unit and the appendix are
\* assembled, and a run that stopped during the assembly has written none.
C13_StageOrdering ==
    /\ map_file => MapperSucceeded
    /\ (pdf_state # "unopened" \/ final_units # <<>>
          \/ pc \in {"intro", "unit", "lesson", "close", "write"}) => map_file
    /\ (pc \in {"done", "crashed"} /\ ~MapperSucceeded)
          => ~map_file /\ ~final_file
    /\ final_file
          => /\ map_file
             /\ pc = "done"
             /\ pdf_state = "closed"
             /\ unit_i > Len(structure_map.units)
             /\ Len(final_units) = FullOutputLen
    /\ pc = "crashed" => ~final_file

\* A run whose mapper succeeded and whose assembly stopped after the first
\* unit was assembled: the map file is there, the final JSON is not.
C13_Witness ==
    /\ pc = "crashed"
    /\ map_file
    /\ ~final_file
    /\ final_units # <<>>

\* ---- main() of evaluate.py
\* Both loads were made, in order, and main() has decided.
Decided == cpc \in {"stopped", "called"}

C15_ReportForLoaded ==
    (Decided /\ ~gt_data.is_none /\ ~agent_data.is_none)
       => /\ cpc = "called"
          /\ epc = "done" => report.printed

\* ---- the lesson walk of one unit
\* The lessons of a mapped unit ascend without overlapping, have
\* start <= end and lie inside the unit's range.
OrderedLessons(u) ==
    /\ \A j \in DOMAIN u.lessons :
          /\ u.unit_start_page <= u.lessons[j].lesson_start_page
          /\ u.lessons[j].lesson_start_page <= u.lessons[j].lesson_end_page
          /\ u.lessons[j].lesson_end_page <= u.unit_end_page
    /\ \A j, k \in DOMAIN u.lessons :
          j < k => u.lessons[j].lesson_end_page
                     < u.lessons[k].lesson_start_page

\* The nominal page ranges of an output unit's lessons and parts.
UnitItems(u) ==
    [j \in DOMAIN u.lessons |->
       <<u.lessons[j].start_page, u.lessons[j].end_page>>]
    \o [j \in DOMAIN u.parts |->
          <<u.parts[j].start_page, u.parts[j].end_page>>]

\* C16: per-unit gap filling. In the walk of a unit whose lessons are
\* ordered, a lesson step emits the filler [cursor + 1, lesson.start - 1]
\* exactly when lesson.start > cursor + 1 and moves the cursor to
\* lesson.end; the step that ends the unit emits the conclusion
\* [cursor + 1, unit.end] exactly when unit.end > cursor, and the unit it
\* appends covers every page of [unit.start, unit.end] exactly once and no
\* other page.
C16_GapFilling ==
    [][ (pc = "lesson" /\ pc' # "crashed"
           /\ OrderedLessons(structure_map.units[unit_i]))
          => LET unit_data == structure_map.units[unit_i]
                 cursor == last_processed_page
             IN  IF pc' = "lesson"
                    THEN LET l == unit_data.lessons[lesson_i]
                         IN  /\ last_processed_page' = l.lesson_end_page
                             /\ unit_obj'.parts =
                                   IF l.lesson_start_page > cursor + 1
                                      THEN Append(unit_obj.parts,
                                              Part("Unit Content", cursor + 1,
                                                   l.lesson_start_page - 1))
                                      ELSE unit_obj.parts
                             /\ Len(unit_obj'.lessons) = lesson_i
                             /\ unit_obj'.lessons[lesson_i].start_page
                                   = l.lesson_start_page
                             /\ unit_obj'.lessons[lesson_i].end_page
                                   = l.lesson_end_page
                    ELSE LET u == final_units'[Len(final_units')]
                             it == UnitItems(u)
                         IN  /\ u.parts =
                                   IF unit_data.unit_end_page > cursor
                                      THEN Append(unit_obj.parts,
                                              Part("Unit Conclusion",
                                                   cursor + 1,
                                                   unit_data.unit_end_page))
                                      ELSE unit_obj.parts
                             /\ \A p \in unit_data.unit_start_page
                                          ..unit_data.unit_end_page :
                                   Cardinality({ j \in DOMAIN it :
                                      it[j][1] <= p /\ p <= it[j][2] }) = 1
                             /\ \A j \in DOMAIN it :
                                   /\ unit_data.unit_start_page <= it[j][1]
                                   /\ it[j][1] <= it[j][2]
                                   /\ it[j][2] <= unit_data.unit_end_page
      ]_vars

\* A unit [1, 3] with the single lesson [2, 2] was assembled with the
\* filler [1, 1] before the lesson and the conclusion [3, 3] after it.
C16_Witness ==
    /\ pc = "done"
    /\ \E i \in DOMAIN final_units :
          LET u == final_units[i]
          IN  /\ u.start_page = 1 /\ u.end_page = 3
              /\ Len(u.lessons) = 1
              /\ u.lessons[1].start_page = 2 /\ u.lessons[1].end_page = 2
              /\ Len(u.parts) = 2
              /\ u.parts[1] = Part("Unit Content", 1, 1)
              /\ u.parts[2] = Part("Unit Conclusion", 3, 3)

\* Every part of the output so far and of the unit under construction has
\* a nominal range with start <= end.
NoEmptyPart ==
    /\ \A i \in DOMAIN final_units :
          \A j \in DOMAIN final_units[i].parts :
             final_units[i].parts[j].start_page
                <= final_units[i].parts[j].end_page
    /\ \A j \in DOMAIN unit_obj.parts :
          unit_obj.parts[j].start_page <= unit_obj.parts[j].end_page

\* C17: no empty Segment. For every mapper output, each step leaves only
\* parts whose nominal range has start <= end; a lesson step whose lesson
\* starts at or before cursor + 1 adds no part; and a lesson step for a
\* single-page lesson (start = end = p) makes the one extraction (p, p) for
\* the lesson.
C17_NoEmptySegment ==
    [][ /\ NoEmptyPart'
        /\ (pc = "lesson" /\ pc' = "lesson")
              => LET l == structure_map.units[unit_i].lessons[lesson_i]
                     made == unit_obj'.lessons[Len(unit_obj'.lessons)]
                 IN  /\ l.lesson_start_page <= last_processed_page + 1
                           => unit_obj'.parts = unit_obj.parts
                     /\ Len(unit_obj'.lessons) = Len(unit_obj.lessons) + 1
                     /\ l.lesson_start_page = l.lesson_end_page
                           => /\ made.start_page = l.lesson_start_page
                              /\ made.end_page = l.lesson_start_page
                              /\ made.content =
                                    IF l.lesson_start_page \in 1..total_pages
                                       THEN << l.lesson_start_page - 1 >>
                                       ELSE <<>>
      ]_vars

\* A unit was assembled whose second lesson is a single page that overlaps
\* the first lesson: the lesson holds that one page, and the unit has no
\* filler.
C17_Witness ==
    /\ pc = "done"
    /\ \E i \in DOMAIN final_units :
          LET u == final_units[i]
          IN  /\ Len(u.lessons) = 2
              /\ u.lessons[2].start_page = u.lessons[2].end_page
              /\ u.lessons[2].start_page <= u.lessons[1].end_page
              /\ u.lessons[2].content = << u.lessons[2].start_page - 1 >>
              /\ \A j \in DOMAIN u.parts : u.parts[j].title # "Unit Content"
              /\ u.parts # <<>>

\* ---- the counts of the evaluation
\* The start and end pages of the ground-truth record and of the agent
\* record that the accepted call c paired, made while the walk stood at
\* ground-truth lesson number l.
PairedPages(c, l) ==
    IF c.level = "unit"
       THEN [gt_start |-> ground_truth_units[c.unit].unit_start_page,
             gt_end   |-> ground_truth_units[c.unit].unit_end_page,
             a_start  |-> agent_units[c.agent].unit_start_page,
             a_end    |-> agent_units[c.agent].unit_end_page]
       ELSE LET g == ground_truth_units[c.unit].lessons[l]
                a == agent_units[MatchedAgentUnit].lessons[c.agent]
            IN  [gt_start |-> g.lesson_start_page,
                 gt_end   |-> g.lesson_end_page,
                 a_start  |-> a.lesson_start_page,
                 a_end    |-> a.lesson_end_page]

\* C18: page-comparison accounting. A step that accepts a match adds 2 to
\* total_page_comparisons, adds to page_errors the number of the pair's two
\* page fields that differ, and appends that many page-mismatch
\* discrepancies and nothing else; any other step leaves both counts alone.
\* After every step total_page_comparisons is twice the number of matched
\* units and lessons, and 0 <= page_errors <= total_page_comparisons.
C18_PageAccounting ==
    [][ /\ stats'.total_page_comparisons =
              2 * (stats'.matched_units_count + stats'.matched_lessons_count)
        /\ 0 <= stats'.page_errors
        /\ stats'.page_errors <= stats'.total_page_comparisons
        /\ IF calls' # calls /\ calls'[Len(calls')].outcome = "accepted"
              THEN LET pp == PairedPages(calls'[Len(calls')], gt_lesson_i)
                       differ == (IF pp.gt_start # pp.a_start THEN 1 ELSE 0)
                                 + (IF pp.gt_end # pp.a_end THEN 1 ELSE 0)
                   IN  /\ stats'.total_page_comparisons =
                             stats.total_page_comparisons + 2
                       /\ stats'.page_errors = stats.page_errors + differ
                       /\ Len(stats'.errors) = Len(stats.errors) + differ
                       /\ \A e \in DOMAIN stats'.errors :
                             e > Len(stats.errors)
                                => stats'.errors[e].kind \in
                                     {"PAGE MISMATCH (Unit Start)",
                                      "PAGE MISMATCH (Unit End)",
                                      "PAGE MISMATCH (Lesson Start)",
                                      "PAGE MISMATCH (Lesson End)"}
              ELSE /\ stats'.total_page_comparisons =
                         stats.total_page_comparisons
                   /\ stats'.page_errors = stats.page_errors
      ]_vars

\* An evaluation ended with two accepted matches, one of whose four page
\* fields differed.
C18_Witness ==
    /\ epc = "done"
    /\ stats.total_page_comparisons = 4
    /\ stats.page_errors = 1
    /\ Len(SelectSeq(stats.errors,
                     LAMBDA e : e.kind = "PAGE MISMATCH (Lesson End)")) = 1

\* C19: a rejected unit leaves everything else unchanged. The step that
\* rejects the match of a ground-truth unit appends exactly one missing-unit
\* discrepancy for it and moves to the next ground-truth unit; the unit
\* pool, the lesson pool and every count are unchanged; and no matcher call
\* is ever made for a lesson of a unit that was not accepted.
C19_RejectedUnitFrame ==
    [][ /\ (calls' # calls
              /\ calls'[Len(calls')].level = "unit"
              /\ calls'[Len(calls')].outcome = "rejected")
             => /\ Len(stats'.errors) = Len(stats.errors) + 1
                /\ SubSeq(stats'.errors, 1, Len(stats.errors)) = stats.errors
                /\ stats'.errors[Len(stats'.errors)].kind = "MISSING UNIT"
                /\ stats'.errors[Len(stats'.errors)].title
                      = ground_truth_units[gt_i].unit_title
                /\ stats'.errors[Len(stats'.errors)].reason
                      = match_result'.reasoning
                /\ [stats' EXCEPT !.errors = <<>>]
                      = [stats EXCEPT !.errors = <<>>]
                /\ available_agent_units' = available_agent_units
                /\ available_agent_lessons' = available_agent_lessons
                /\ gt_i' = gt_i + 1
                /\ epc' = "unit"
        /\ \A j \in DOMAIN calls' :
              calls'[j].level = "lesson"
                 => \E k \in 1..(j - 1) :
                       /\ calls'[k].level = "unit"
                       /\ calls'[k].unit = calls'[j].unit
                       /\ calls'[k].outcome = "accepted"
      ]_vars

\* The first ground-truth unit, which has a lesson, was rejected while the
\* pool held a candidate; the walk went on to the second unit, and the only
\* matcher calls are the two unit-level ones.
C19_Witness ==
    /\ Len(calls) = 2
    /\ calls[1].level = "unit" /\ calls[1].outcome = "rejected"
    /\ calls[1].candidates # <<>>
    /\ ground_truth_units[1].lessons # <<>>
    /\ calls[2].level = "unit" /\ calls[2].unit = 2
    /\ stats.errors[1].kind = "MISSING UNIT"

\* The position of the last record titled t in a list of titles.
LastIndex(titles, t) ==
    CHOOSE i \in DOMAIN titles :
        /\ titles[i] = t
        /\ \A j \in DOMAIN titles : j > i => titles[j] # t

\* A pool built from titles of which `consumed` were popped: one entry for
\* each remaining title, bound to the last record with that title.
LastOneWins(pool, titles, consumed) ==
    /\ \A j, k \in DOMAIN pool : pool[j].key = pool[k].key => j = k
    /\ SeqSet(DictKeys(pool)) = SeqSet(titles) \ consumed
    /\ \A j \in DOMAIN pool : pool[j].idx = LastIndex(titles, pool[j].key)

AcceptedBests(level, unit) ==
    { calls[j].best : j \in { k \in DOMAIN calls :
                                 /\ calls[k].level = level
                                 /\ calls[k].outcome = "accepted"
                                 /\ level = "lesson" => calls[k].unit = unit } }

Differs(x, y) == IF x # y THEN 1 ELSE 0

\* The pools, the matches and the agent count of a state of the evaluation.
DuplicateTitlesState ==
    epc # "start" =>
      /\ stats.agent_units_count = Len(agent_units)
      /\ LastOneWins(available_agent_units, UnitTitles(agent_units),
                     AcceptedBests("unit", 0))
      /\ epc = "lesson" =>
            LastOneWins(available_agent_lessons,
                        LessonTitles(agent_units[MatchedAgentUnit].lessons),
                        AcceptedBests("lesson", gt_i))
      /\ \A j, k \in DOMAIN calls :
            (/\ calls[j].outcome = "accepted" /\ calls[k].outcome = "accepted"
             /\ calls[j].level = calls[k].level
             /\ calls[j].level = "lesson" => calls[j].unit = calls[k].unit
             /\ calls[j].best = calls[k].best)
            => j = k
      /\ \A j \in DOMAIN calls :
            (calls[j].level = "unit" /\ calls[j].outcome = "accepted")
               => calls[j].agent
                     = LastIndex(UnitTitles(agent_units), calls[j].best)

\* C20: duplicate agent titles are last-one-wins. After every step of the
\* evaluation each pool holds exactly one entry for each title not yet
\* consumed, bound to the last agent record with that title; no title is
\* accepted twice at the unit level, or twice among the lessons of one unit;
\* agent_units_count is the number of agent records, duplicates included;
\* and a step that accepts a match adds to page_errors the number of page
\* fields in which the ground-truth record differs from that last record.
C20_LastOneWins ==
    [][ /\ DuplicateTitlesState'
        /\ (calls' # calls /\ calls'[Len(calls')].outcome = "accepted")
             => LET c == calls'[Len(calls')]
                IN  IF c.level = "unit"
                       THEN LET g == ground_truth_units[gt_i]
                                a == agent_units[
                                       LastIndex(UnitTitles(agent_units),
                                                 c.best)]
                            IN  stats'.page_errors = stats.page_errors
                                  + Differs(g.unit_start_page,
                                            a.unit_start_page)
                                  + Differs(g.unit_end_page, a.unit_end_page)
                       ELSE LET g == ground_truth_units[gt_i]
                                       .lessons[gt_lesson_i]
                                ls == agent_units[MatchedAgentUnit].lessons
                                a == ls[LastIndex(LessonTitles(ls), c.best)]
                            IN  stats'.page_errors = stats.page_errors
                                  + Differs(g.lesson_start_page,
                                            a.lesson_start_page)
                                  + Differs(g.lesson_end_page,
                                            a.lesson_end_page)
      ]_vars

\* The agent map has two units titled alike with different start pages; the
\* title was accepted for a ground-truth unit, was compared with the second
\* of them, and is gone from the pool while agent_units_count is 2.
C20_Witness ==
    /\ epc \in {"unit", "lesson"}
    /\ Len(agent_units) = 2
    /\ agent_units[1].unit_title = agent_units[2].unit_title
    /\ agent_units[1].unit_start_page # agent_units[2].unit_start_page
    /\ Len(calls) >= 1
    /\ agent_units[1].unit_start_page = ground_truth_units[1].unit_start_page
    /\ calls[1].outcome = "accepted"
    /\ calls[1].candidates = << agent_units[2].unit_title >>
    /\ calls[1].agent = 2
    /\ stats.page_errors >= 1
    /\ ~HasKey(available_agent_units, agent_units[2].unit_title)
    /\ stats.agent_units_count = 2

\* C21: consumption never fails. Every decision the evaluation accepts
\* (is_match true and confidence >= 0.8) names a title held by the pool of its
\* level at that moment, so the pop succeeds and the walk is not aborted,
\* whatever the matcher returned.
C21_ConsumptionNeverFails ==
    \A j \in DOMAIN calls :
       calls[j].outcome \in {"accepted", "keyerror"}
          => /\ calls[j].best \in SeqSet(calls[j].candidates)
             /\ calls[j].outcome = "accepted"

\* Page p lies in the nominal range of a lesson or of a part of unit u.
Covered(u, p) ==
    \/ \E j \in DOMAIN u.lessons :
          u.lessons[j].start_page <= p /\ p <= u.lessons[j].end_page
    \/ \E j \in DOMAIN u.parts :
          u.parts[j].start_page <= p /\ p <= u.parts[j].end_page

\* C22: lenient coverage. Whatever the mapper returned, every page of
\* [start_page, end_page] of a unit of the output lies in the nominal range
\* of one of its lessons or parts, and during the lesson walk every page of
\* [start_page, cursor] of the unit under construction already does.
C22_LenientCoverage ==
    /\ \A i \in DOMAIN final_units :
          \A p \in final_units[i].start_page..final_units[i].end_page :
             Covered(final_units[i], p)
    /\ pc = "lesson"
          => \A p \in unit_obj.start_page..last_processed_page :
                Covered(unit_obj, p)

\* A finished run whose output holds a unit of several pages with two
\* lessons, the second ending before the first (the cursor moved
\* backwards), and a conclusion extracted after them.
C22_Witness ==
    /\ pc = "done" /\ final_file
    /\ \E i \in DOMAIN final_units :
          LET u == final_units[i]
          IN  /\ u.start_page < u.end_page
              /\ Len(u.lessons) = 2
              /\ u.lessons[2].end_page < u.lessons[1].end_page
              /\ u.lessons[1].start_page <= u.lessons[1].end_page
              /\ \E j \in DOMAIN u.parts :
                    u.parts[j].title = "Unit Conclusion"

\* The number of distinct titles among the agent's units.
DistinctAgentTitles == Cardinality(SeqSet(UnitTitles(agent_units)))

\* The number of discrepancies of one kind recorded so far.
ErrorCount(kind) ==
    Cardinality({ e \in DOMAIN stats.errors : stats.errors[e].kind = kind })

\* C23: bounded counts. Once an evaluation has started,
\* matched_units_count <= min(gt_units_count, distinct agent unit titles)
\* <= agent_units_count and matched_lessons_count <= gt_lessons_count; when
\* it has completed, matched_units_count plus the missing-unit discrepancies
\* is gt_units_count, the extra-unit discrepancies number the distinct agent
\* unit titles minus matched_units_count, and the unit recall and precision
\* of the report are at most 100%.
C23_BoundedCounts ==
    /\ epc # "start"
          => /\ stats.matched_units_count
                   <= Min(stats.gt_units_count, DistinctAgentTitles)
             /\ Min(stats.gt_units_count, DistinctAgentTitles)
                   <= stats.agent_units_count
             /\ stats.matched_lessons_count <= stats.gt_lessons_count
    /\ epc = "done"
          => /\ stats.matched_units_count + ErrorCount("MISSING UNIT")
                   = stats.gt_units_count
             /\ ErrorCount("EXTRA UNIT")
                   = DistinctAgentTitles - stats.matched_units_count
             /\ report.printed
             /\ report.recall_u <= 10000
             /\ report.precision_u <= 10000

\* A completed evaluation of an agent map with a duplicated title: one unit
\* matched, one missing, one extra, and fewer distinct titles than agent
\* units.
C23_Witness ==
    /\ epc = "done"
    /\ stats.matched_units_count = 1
    /\ ErrorCount("MISSING UNIT") = 1
    /\ ErrorCount("EXTRA UNIT") = 1
    /\ DistinctAgentTitles < stats.agent_units_count
    /\ report.recall_u = 5000

\* ---- the parser
\* The headings of the parsed document, in order: tag and text.
RECURSIVE Headings(_)
Headings(n) ==
    IF n = 0 THEN <<>>
    ELSE IF tokens[n].type = "heading_open"
       THEN Append(Headings(n - 1),
                   [tag |-> tokens[n].tag, text |-> tokens[n + 1].content])
    ELSE Headings(n - 1)

\* The structure the first n headings describe: a unit for each h1, under it
\* a lesson for each h2, and each h3 as a part of the lesson it appears under
\* or, when no lesson is open, of the unit. Titles only.
RECURSIVE Outline(_, _)
Outline(hs, n) ==
    IF n = 0 THEN <<>>
    ELSE LET o == Outline(hs, n - 1)
             h == hs[n]
             k == Len(o)
         IN  IF h.tag = "h1"
                THEN Append(o, [title |-> h.text, lessons |-> <<>>,
                                parts |-> <<>>])
             ELSE IF k = 0 THEN o
             ELSE IF h.tag = "h2"
                THEN [o EXCEPT ![k].lessons =
                        Append(@, [title |-> h.text, parts |-> <<>>])]
             ELSE IF o[k].lessons = <<>>
                THEN [o EXCEPT ![k].parts = Append(@, h.text)]
             ELSE [o EXCEPT ![k].lessons[Len(o[k].lessons)].parts =
                        Append(@, h.text)]

PartTitles(parts) == [j \in DOMAIN parts |-> parts[j].title]

\* The units the parser returned, titles only.
ReturnedOutline ==
    [u \in DOMAIN result_json |->
       [title |-> result_json[u].title,
        lessons |-> [l \in DOMAIN result_json[u].lessons |->
                       [title |-> result_json[u].lessons[l].title,
                        parts |-> PartTitles(
                                    result_json[u].lessons[l].parts)]],
        parts |-> PartTitles(result_json[u].parts)]]

\* The document opens with an h1 heading.
OpensWithUnit ==
    Len(tokens) > 0 /\ tokens[1].type = "heading_open" /\ tokens[1].tag = "h1"

\* C24: parser structure preservation. For a document that opens with an
\* h1, the returned units are the h1 headings in order, the lessons of each
\* are the h2 headings under it in order, and every h3 is a part, once, of
\* the lesson or unit it appears under: nothing is lost or duplicated.
C24_StructurePreserved ==
    (ppc = "done" /\ OpensWithUnit)
       => ReturnedOutline = Outline(Headings(Len(tokens)),
                                    Len(Headings(Len(tokens))))

\* C25: parser totality. The parser reaches its return for every order of
\* headings and text: it never raises on an absent lesson or unit.
C25_ParserTotality ==
    ppc # "crashed"

====
